---------------------------- MODULE Spec2Model ----------------------------
(***************************************************************************)
(* Model of the tire-curve synthesis scripts of research/:                 *)
(*   custom_tire_curve_generator.py  (load scaling, five-segment curve,    *)
(*                                    LUT normalisation and writing)       *)
(*   tire_chatter_generator.py       (chatter overlay, chatter LUT files)  *)
(*                                                                         *)
(* Numbers.  A Python/numpy float is modelled as an exact rational         *)
(* <<n, d>> in lowest terms with d > 0, extended with the IEEE special     *)
(* values the code can produce: <<1, 0>> is +inf, <<-1, 0>> is -inf and    *)
(* <<0, 0>> is NaN.  Rounding of finite results and the sign of zero are    *)
(* not modelled.  Arrays are numpy float arrays, as every caller passes:   *)
(* a division by zero yields inf or NaN with a warning, not an exception.  *)
(* np.radians(a) is a * pi / 180; radians are kept as rational multiples   *)
(* of pi, i.e. Radians(a) is a / 180 in units of pi.                       *)
(***************************************************************************)
EXTENDS Integers, Sequences, FiniteSets, TLC

VARIABLES
    pc,                 \* position of the driver script
    slip_angles,        \* the SlipAngleSeries handed to the builders
    dy_ref, fz0, ls_exp, vertical_load,                     \* CurveParameters
    chatter_start, chatter_intensity, chatter_frequency,    \* ChatterConfig
    input_forces,       \* the force array handed to the LUT writer, kept for comparison
    base_forces,        \* result of create_realistic_tire_curve
    chattering_forces,  \* result of create_chatter_tire_curve
    chatter_progress,   \* chatter_progress computed for every sample >= chatter_start
    normalized_forces,  \* forces / np.max(forces) of the LUT writer
    lut_file,           \* lines written to the LUT file
    error,              \* exception raised by the last call, "none" if it returned
    friction_limit_angle, falloff_level, falloff_speed,    \* brush model parameters
    ac_forces           \* result of ac_tire_model

vars == <<pc, slip_angles, dy_ref, fz0, ls_exp, vertical_load,
          chatter_start, chatter_intensity, chatter_frequency,
          input_forces, base_forces, chattering_forces, chatter_progress,
          normalized_forces, lut_file, error,
          friction_limit_angle, falloff_level, falloff_speed, ac_forces>>

brushVars == <<friction_limit_angle, falloff_level, falloff_speed, ac_forces>>

-----------------------------------------------------------------------------
(* Bounds of the model *)

MaxLen == 4
MaxChatterLen == 2

-----------------------------------------------------------------------------
(* Float arithmetic: exact rationals plus inf and NaN *)

Abs(n) == IF n < 0 THEN -n ELSE n

Sign(n) == IF n < 0 THEN -1 ELSE IF n > 0 THEN 1 ELSE 0

RECURSIVE GCD(_, _)
GCD(a, b) == IF b = 0 THEN a ELSE GCD(b, a % b)

Norm(n, d) ==
    IF d = 0 THEN <<Sign(n), 0>>
    ELSE LET g == GCD(Abs(n), Abs(d))
         IN  <<Sign(d) * (n \div g), Abs(d) \div g>>

NaN == <<0, 0>>
PosInf == <<1, 0>>
Zero == <<0, 1>>
One == <<1, 1>>

IsNaN(x) == x[1] = 0 /\ x[2] = 0
IsInf(x) == x[1] # 0 /\ x[2] = 0
IsFinite(x) == x[2] # 0

R(n, d) == Norm(n, d)

RNeg(x) == <<-x[1], x[2]>>

RAdd(x, y) ==
    IF IsNaN(x) \/ IsNaN(y) THEN NaN
    ELSE IF IsInf(x) THEN (IF IsInf(y) /\ y[1] # x[1] THEN NaN ELSE x)
    ELSE IF IsInf(y) THEN y
    ELSE LET g == GCD(x[2], y[2])
         IN  Norm(x[1] * (y[2] \div g) + y[1] * (x[2] \div g), (x[2] \div g) * y[2])

RSub(x, y) == RAdd(x, RNeg(y))

RMul(x, y) ==
    IF IsNaN(x) \/ IsNaN(y) THEN NaN
    ELSE IF ~IsFinite(x) \/ ~IsFinite(y) THEN <<x[1] * y[1], 0>> \* inf * 0 is NaN
    ELSE LET g1 == GCD(Abs(x[1]), y[2])
             g2 == GCD(Abs(y[1]), x[2])
         IN  Norm((x[1] \div g1) * (y[1] \div g2), (x[2] \div g2) * (y[2] \div g1))

RInv(x) ==
    IF IsNaN(x) THEN NaN
    ELSE IF IsInf(x) THEN Zero
    ELSE IF x[1] = 0 THEN PosInf
    ELSE <<Sign(x[1]) * x[2], Abs(x[1])>>

\* numpy float division: x / 0 is inf (or NaN for 0 / 0) with a warning, not an exception
RDiv(x, y) ==
    IF IsFinite(y) /\ y[1] = 0 THEN <<Sign(x[1]), 0>>
    ELSE RMul(x, RInv(y))

\* IEEE comparison: every comparison with NaN is false
RLt(x, y) ==
    IF IsNaN(x) \/ IsNaN(y) THEN FALSE
    ELSE IF ~IsFinite(x) \/ ~IsFinite(y)
         THEN (IF IsFinite(x) THEN y[1] > 0
               ELSE IF IsFinite(y) THEN x[1] < 0
               ELSE x[1] < y[1])
    ELSE LET g == GCD(x[2], y[2])
         IN  x[1] * (y[2] \div g) < y[1] * (x[2] \div g)

RLe(x, y) ==
    IF IsNaN(x) \/ IsNaN(y) THEN FALSE
    ELSE x = y \/ RLt(x, y)

RECURSIVE RPow(_, _)
RPow(x, n) ==
    IF n = 0 THEN One
    ELSE IF n < 0 THEN RInv(RPow(x, -n))
    ELSE RMul(x, RPow(x, n - 1))

\* Python's min(a, b) and max(a, b): the first argument unless the second beats it
PyMin(a, b) == IF RLt(b, a) THEN b ELSE a

PyMax(a, b) == IF RLt(a, b) THEN b ELSE a

\* np.radians, in units of pi
Radians(a) == RMul(a, R(1, 180))

-----------------------------------------------------------------------------
(* custom_tire_curve_generator.py *)

\* (vertical_load / fz0) ** ls_exp, for the integer exponents the model draws
calculate_load_scaling(vl, f0, e) == RPow(RDiv(vl, f0), e)

\* The exception of (vertical_load / fz0) ** ls_exp on the Python scalars the
\* builder's callers pass: a zero divisor, or zero to a negative power
LoadScalingRaises(vl, f0, e) ==
    IF f0 = Zero THEN "ZeroDivisionError"
    ELSE IF RDiv(vl, f0) = Zero /\ e < 0 THEN "ZeroDivisionError"
    ELSE "none"

PeakGrip(dr, f0, e, vl) == RMul(dr, calculate_load_scaling(vl, f0, e))

\* cornering_stiffness = peak_grip / np.radians(6.0)
CorneringStiffness(peak_grip) == RDiv(peak_grip, Radians(R(6, 1)))

\* Mutant of LinearForce: the boundary expression of the transition branch
LinearForceAtBoundary(cornering_stiffness, angle) ==
    RMul(cornering_stiffness, Radians(R(2, 1)))

\* angle <= 2.0: forces[i] = cornering_stiffness * np.radians(angle)
LinearForce(cornering_stiffness, angle) ==
    RMul(cornering_stiffness, Radians(angle))

\* 2.0 < angle <= 5.5: smoothstep from the linear force at 2.0 to peak_grip
TransitionForce(cornering_stiffness, peak_grip, angle) ==
    LET linear_force == RMul(cornering_stiffness, Radians(R(2, 1)))
        transition_progress == RDiv(RSub(angle, R(2, 1)), RSub(R(11, 2), R(2, 1)))
        transition_factor ==
            RSub(RMul(R(3, 1), RPow(transition_progress, 2)),
                 RMul(R(2, 1), RPow(transition_progress, 3)))
    IN  RAdd(linear_force, RMul(RSub(peak_grip, linear_force), transition_factor))

\* Mutant of PlateauForce: the plateau rises instead of declining
PlateauForceRising(peak_grip, angle) ==
    RMul(peak_grip, RAdd(One, RMul(R(1, 50), RSub(angle, R(11, 2)))))

\* Mutant of PlateauForce: 3% per degree instead of 2%
PlateauForceSteeper(peak_grip, angle) ==
    RMul(peak_grip, RSub(One, RMul(R(3, 100), RSub(angle, R(11, 2)))))

\* 5.5 < angle <= 8.0: plateau_factor = 1.0 - 0.02 * (angle - 5.5)
PlateauForce(peak_grip, angle) ==
    LET plateau_factor == RSub(One, RMul(R(1, 50), RSub(angle, R(11, 2))))
    IN  RMul(peak_grip, plateau_factor)

\* 8.0 < angle <= 12.0
ModerateFalloffForce(peak_grip, angle) ==
    LET plateau_end_force == RMul(peak_grip, R(19, 20))
        falloff_progress == RDiv(RSub(angle, R(8, 1)), RSub(R(12, 1), R(8, 1)))
        target_retention == R(3, 4)
    IN  RMul(plateau_end_force,
             RSub(One, RMul(falloff_progress, RSub(One, target_retention))))

\* Mutant of SteepFalloffForce: steep_progress is not clamped at 20 degrees
SteepFalloffUnclamped(peak_grip, angle) ==
    LET plateau_end_force == RMul(peak_grip, R(19, 20))
        initial_falloff == RMul(plateau_end_force, R(3, 4))
        steep_progress == RDiv(RSub(angle, R(12, 1)), R(8, 1))
        final_retention == R(3, 5)
    IN  RMul(initial_falloff,
             RAdd(final_retention,
                  RMul(RSub(One, final_retention), RSub(One, steep_progress))))

\* angle > 12.0
SteepFalloffForce(peak_grip, angle) ==
    LET plateau_end_force == RMul(peak_grip, R(19, 20))
        initial_falloff == RMul(plateau_end_force, R(3, 4))
        steep_progress == PyMin(RDiv(RSub(angle, R(12, 1)), R(8, 1)), One)
        final_retention == R(3, 5)
    IN  RMul(initial_falloff,
             RAdd(final_retention,
                  RMul(RSub(One, final_retention), RSub(One, steep_progress))))

\* One iteration of the loop of create_realistic_tire_curve.  st is the loop
\* state: the forces array, whether the local cornering_stiffness has been
\* assigned (it is assigned only in the angle <= 2.0 branch), its value, and
\* the exception raised so far.
CurveStep(st, peak_grip, angle, i) ==
    IF st.error # "none" THEN st
    ELSE IF RLe(angle, R(2, 1)) THEN
        LET cs == CorneringStiffness(peak_grip)
        IN  [st EXCEPT !.bound = TRUE, !.cornering_stiffness = cs,
                       !.forces[i] = LinearForce(cs, angle)]
    ELSE IF RLe(angle, R(11, 2)) THEN
        IF ~st.bound
        THEN [st EXCEPT !.error = "UnboundLocalError"]
        ELSE [st EXCEPT !.forces[i] =
                  TransitionForce(st.cornering_stiffness, peak_grip, angle)]
    ELSE IF RLe(angle, R(8, 1)) THEN
        [st EXCEPT !.forces[i] = PlateauForce(peak_grip, angle)]
    ELSE IF RLe(angle, R(12, 1)) THEN
        [st EXCEPT !.forces[i] = ModerateFalloffForce(peak_grip, angle)]
    ELSE
        [st EXCEPT !.forces[i] = SteepFalloffForce(peak_grip, angle)]

RECURSIVE CurveLoop(_, _, _, _)
CurveLoop(st, peak_grip, angles, i) ==
    IF i > Len(angles) THEN st
    ELSE CurveLoop(CurveStep(st, peak_grip, angles[i], i), peak_grip, angles, i + 1)

\* The call: [error |-> exception name or "none", forces |-> the returned array]
create_realistic_tire_curve(angles, dr, f0, e, vl) ==
    LET peak_grip == PeakGrip(dr, f0, e, vl)
        st0 == [forces |-> [k \in 1..Len(angles) |-> Zero],   \* np.zeros_like
                bound |-> FALSE, cornering_stiffness |-> Zero, error |-> "none"]
        st == CurveLoop(st0, peak_grip, angles, 1)
    IN  IF LoadScalingRaises(vl, f0, e) # "none"
        THEN [error |-> LoadScalingRaises(vl, f0, e), forces |-> << >>]
        ELSE IF st.error # "none"
        THEN [error |-> st.error, forces |-> << >>]
        ELSE [error |-> "none", forces |-> st.forces]

\* np.max: ValueError on an empty array, NaN if any element is NaN
RECURSIVE MaxFrom(_, _, _)
MaxFrom(forces, i, m) ==
    IF i > Len(forces) THEN m
    ELSE MaxFrom(forces, i + 1,
                 IF IsNaN(m) \/ IsNaN(forces[i]) THEN NaN
                 ELSE IF RLt(m, forces[i]) THEN forces[i] ELSE m)

\* Mutant of NpMax: the first element instead of the maximum
NpMaxFirst(forces) == forces[1]

NpMax(forces) == MaxFrom(forces, 2, forces[1])

\* forces / peak_force, elementwise
Normalize(forces) ==
    LET peak_force == NpMax(forces)
    IN  [k \in 1..Len(forces) |-> RDiv(forces[k], peak_force)]

\* f"{x:.Nf}": x rounded half-even to N decimals, by long division; nan and inf
\* are printed as such
RECURSIVE Digits(_, _, _, _)
Digits(q, r, d, n) ==
    IF n = 0 THEN <<q, r>>
    ELSE Digits(q * 10 + ((r * 10) \div d), (r * 10) % d, d, n - 1)

\* forces / peak_force builds a new array: the array passed in keeps its values
ForcesAfterNormalize(forces, normalized) == forces

RECURSIVE Pow10(_)
Pow10(n) == IF n = 0 THEN 1 ELSE 10 * Pow10(n - 1)

FormatFixed(x, n) ==
    IF ~IsFinite(x) THEN x
    ELSE LET m == Abs(x[1])
             qr == Digits(m \div x[2], m % x[2], x[2], n)
             up == 2 * qr[2] > x[2] \/ (2 * qr[2] = x[2] /\ qr[1] % 2 = 1)
             q == IF up THEN qr[1] + 1 ELSE qr[1]
         IN  Norm(Sign(x[1]) * q, Pow10(n))

\* a written line that is not a data line: its first character and the rest
CommentLine(c, t) ==
    [kind |-> "comment", first |-> c, text |-> t, angle |-> Zero, force |-> Zero]

DataLine(a, f) ==
    [kind |-> "data", text |-> "", angle |-> FormatFixed(a, 1), force |-> FormatFixed(f, 4)]

Min2(a, b) == IF a < b THEN a ELSE b

\* for angle, force in zip(slip_angles, normalized_forces): f.write(...)
DataLines(angles, forces) ==
    [k \in 1..Min2(Len(angles), Len(forces)) |-> DataLine(angles[k], forces[k])]

LutHeader ==
    << CommentLine(";", " Custom DY_CURVE for realistic slip angle behavior"),
       CommentLine(";", " Generated from research data: OptimumG, Paul Haney, MATLAB Pacejka"),
       CommentLine(";", " Includes plateau region (5.5-8) and progressive falloff"),
       CommentLine(";", ""),
       CommentLine(";", " Format: slip_angle_degrees|normalized_lateral_force"),
       CommentLine(";", "") >>

-----------------------------------------------------------------------------
(* tire_curve_plotter.py *)

\* np.exp(-x) is 0.0 in double precision for every x >= 746
ExpUnderflow == 746

\* np.exp(y) on rationals.  The exponential of a rational is irrational, so a
\* rational function stands for it that has the properties used below:
\* exp(0) = 1, strictly increasing, in (0, 1) for y < 0 until it underflows
\* to 0.0, above 1 for y > 0.  It is 1 + y for y >= 0 and 1 / (1 - y) for y < 0.
NpExp(y) ==
    IF RLe(y, R(-ExpUnderflow, 1)) THEN Zero
    ELSE IF RLt(y, Zero) THEN RInv(RSub(One, y))
    ELSE RAdd(One, y)

FalloffFactorGrowing(angle, fla, fs) ==
    NpExp(RDiv(RMul(fs, RSub(angle, fla)), fla))

\* falloff_factor = np.exp(-falloff_speed * excess_angle / friction_limit_angle)
FalloffFactor(angle, fla, fs) ==
    NpExp(RDiv(RMul(RNeg(fs), RSub(angle, fla)), fla))

\* post_peak_force = peak_force * (falloff_level + (1 - falloff_level) * falloff_factor)
PostPeakForce(angle, dr, fla, fl, fs) ==
    LET peak_force == RMul(dr, Radians(fla))
    IN  RMul(peak_force,
             RAdd(fl, RMul(RSub(One, fl), FalloffFactor(angle, fla, fs))))

\* one pass of "for i, angle in enumerate(slip_angle)"
AcForce(angle, dr, fla, fl, fs) ==
    IF RLe(angle, fla) THEN RMul(dr, Radians(angle))
    ELSE PostPeakForce(angle, dr, fla, fl, fs)

ac_tire_model(angles, dr, fla, fl, fs) ==
    [k \in 1..Len(angles) |-> AcForce(angles[k], dr, fla, fl, fs)]

\* the brush model has not been called
BrushIdle ==
    /\ friction_limit_angle = R(17, 2)
    /\ falloff_level = R(3, 5)
    /\ falloff_speed = R(2, 1)
    /\ ac_forces = << >>

-----------------------------------------------------------------------------
(* Inputs *)

\* angles in tenths of a degree
AngleGrid == {-10, 0, 20, 30, 54, 55, 60, 80, 120, 160, 200, 250}

SetMin(S) == CHOOSE x \in S : \A y \in S : x <= y

RECURSIVE SortedSeq(_)
SortedSeq(S) ==
    IF S = {} THEN << >>
    ELSE <<R(SetMin(S), 10)>> \o SortedSeq(S \ {SetMin(S)})

\* strictly increasing series of at most n angles
SeriesOver(G, n) == {SortedSeq(S) : S \in {T \in SUBSET G : Cardinality(T) <= n}}

DyRefs == {R(1, 1), R(63, 50)}

\* <<fz0, ls_exp, vertical_load>>
LoadCases == {<<R(2, 1), 1, R(2, 1)>>, <<R(2, 1), 1, R(1, 1)>>, <<R(2, 1), 2, R(3, 1)>>}

-----------------------------------------------------------------------------
(* The load-sensitivity script: build the curve, then write its LUT *)

Init ==
    /\ pc = "start"
    /\ slip_angles \in SeriesOver(AngleGrid, MaxLen)
    /\ dy_ref \in DyRefs
    /\ \E lc \in LoadCases : fz0 = lc[1] /\ ls_exp = lc[2] /\ vertical_load = lc[3]
    /\ chatter_start = R(10, 1)
    /\ chatter_intensity = R(3, 20)
    /\ chatter_frequency = R(2, 1)
    /\ input_forces = << >>
    /\ base_forces = << >>
    /\ chattering_forces = << >>
    /\ chatter_progress = << >>
    /\ normalized_forces = << >>
    /\ lut_file = << >>
    /\ error = "none"
    /\ BrushIdle

CreateRealisticTireCurve ==
    /\ pc = "start"
    /\ LET res == create_realistic_tire_curve(slip_angles, dy_ref, fz0, ls_exp, vertical_load)
       IN  /\ error' = res.error
           /\ base_forces' = res.forces
           /\ pc' = IF res.error = "none" THEN "built" ELSE "failed"
    /\ UNCHANGED brushVars
    /\ UNCHANGED <<slip_angles, dy_ref, fz0, ls_exp, vertical_load,
                   chatter_start, chatter_intensity, chatter_frequency,
                   input_forces, chattering_forces, chatter_progress,
                   normalized_forces, lut_file>>

\* generate_lut_file(slip_angles, forces, filename) on the curve just built
GenerateLutFile ==
    /\ pc = "built"
    /\ input_forces' = base_forces
    /\ IF Len(base_forces) = 0
       THEN /\ error' = "ValueError"        \* np.max of an empty array
            /\ pc' = "failed"
            /\ UNCHANGED <<normalized_forces, lut_file>>
       ELSE /\ normalized_forces' = Normalize(base_forces)
            /\ lut_file' = LutHeader \o DataLines(slip_angles, Normalize(base_forces))
            /\ pc' = "written"
            /\ UNCHANGED error
    /\ base_forces' = IF Len(base_forces) = 0 THEN base_forces
                      ELSE ForcesAfterNormalize(base_forces, Normalize(base_forces))
    /\ UNCHANGED brushVars
    /\ UNCHANGED <<slip_angles, dy_ref, fz0, ls_exp, vertical_load,
                   chatter_start, chatter_intensity, chatter_frequency,
                   chattering_forces, chatter_progress>>

Next == CreateRealisticTireCurve \/ GenerateLutFile

Spec == Init /\ [][Next]_vars

-----------------------------------------------------------------------------
(* tire_chatter_generator.py *)

\* np.sin and np.cos return some value in [-1, 1]; the model lets every call
\* return either end of that range, whatever its argument (the force of a
\* sample is linear in each of the seven values, then clamped from below)
TrigRange == {R(-1, 1), R(1, 1)}

NpSin(x) == TrigRange

NpCos(x) == TrigRange

\* Mutant of ChatterApplies: the default threshold instead of the argument
ChatterAppliesFromDefault(angle, start) == RLe(R(10, 1), angle)

\* if angle >= chatter_start
ChatterApplies(angle, start) == RLe(start, angle)

\* chatter_progress = min((angle - chatter_start) / (20.0 - chatter_start), 1.0)
ChatterProgress(angle, start) ==
    PyMin(RDiv(RSub(angle, start), RSub(R(20, 1), start)), One)

\* The new force of one sample in the chatter region, given the values the
\* seven trigonometric calls returned
ChatterForce(base, progress, intensity, sh, sm, sl, c07, s13, s137, c73) ==
    LET high_freq == RMul(sh, R(3, 5))
        med_freq == RMul(sm, R(3, 10))
        low_freq == RMul(sl, R(1, 10))
        noise_component == RAdd(RAdd(high_freq, RMul(med_freq, c07)), RMul(low_freq, s13))
        scaled_noise == RMul(RMul(noise_component, intensity), progress)
        random_factor == RAdd(RMul(s137, R(1, 10)), RMul(c73, R(1, 20)))
    IN  PyMax(RMul(base, RAdd(RAdd(One, scaled_noise), RMul(random_factor, progress))),
              RMul(base, R(1, 10)))

\* The values chattering_forces[i] can get in one iteration of the loop
ChatterSample(angle, base, start, intensity, freq) ==
    IF ~ChatterApplies(angle, start) THEN {base}
    ELSE LET progress == ChatterProgress(angle, start)
         IN  { ChatterForce(base, progress, intensity, sh, sm, sl, c07, s13, s137, c73) :
                   sh \in NpSin(RMul(RMul(angle, freq), R(8, 1))),
                   sm \in NpSin(RMul(RMul(angle, freq), R(3, 1))),
                   sl \in NpSin(RMul(RMul(angle, freq), R(1, 1))),
                   c07 \in NpCos(RMul(angle, R(7, 10))),
                   s13 \in NpSin(RMul(angle, R(13, 10))),
                   s137 \in NpSin(RMul(angle, R(137, 10))),
                   c73 \in NpCos(RMul(angle, R(73, 10))) }

\* The arrays the loop over the samples i..Len(angles) can produce
RECURSIVE ChatterLoop(_, _, _, _, _, _)
ChatterLoop(angles, base, start, intensity, freq, i) ==
    IF i > Len(angles) THEN {<< >>}
    ELSE { <<f>> \o rest :
               f \in ChatterSample(angles[i], base[i], start, intensity, freq),
               rest \in ChatterLoop(angles, base, start, intensity, freq, i + 1) }

OverlayOnBase(base, written) == written

\* chattering_forces = base_forces.copy(): the loop writes chattering_forces[i]
\* into an array of its own, so base_forces keeps its values
BaseForcesAfterOverlay(base, written) == base

\* chatter_progress of every sample, as the loop computes it
ProgressTrace(angles, start) ==
    [k \in 1..Len(angles) |->
        IF ChatterApplies(angles[k], start)
        THEN [applied |-> TRUE, progress |-> ChatterProgress(angles[k], start)]
        ELSE [applied |-> FALSE, progress |-> Zero]]

ChatterHeader ==
    << CommentLine(";", " Experimental chatter tire curve: {name}"),
       CommentLine(";", " WARNING: This is experimental and may cause unrealistic behavior"),
       CommentLine(";", " Progressive chatter noise beyond 10 slip angle"),
       CommentLine(";", " Simulates tire juddering/chattering at extreme slip angles"),
       CommentLine(";", ""),
       CommentLine(";", " Format: slip_angle_degrees|normalized_lateral_force"),
       CommentLine(";", "") >>

-----------------------------------------------------------------------------
(* The chatter script: build one chatter curve, then write its LUT *)

ChatterGrid == {0, 30, 100, 200, 250}

ChatterStarts == {R(0, 1), R(10, 1), R(20, 1), R(25, 1)}

ChatterIntensities == {R(0, 1), R(3, 20), R(1, 1)}

InitChatter ==
    /\ pc = "start"
    /\ slip_angles \in SeriesOver(ChatterGrid, MaxChatterLen)
    /\ dy_ref = R(63, 50)
    /\ fz0 = R(2, 1)
    /\ ls_exp = 1
    /\ vertical_load = R(2, 1)
    /\ chatter_start \in ChatterStarts
    /\ chatter_intensity \in ChatterIntensities
    /\ chatter_frequency = R(2, 1)
    /\ input_forces = << >>
    /\ base_forces = << >>
    /\ chattering_forces = << >>
    /\ chatter_progress = << >>
    /\ normalized_forces = << >>
    /\ lut_file = << >>
    /\ error = "none"
    /\ BrushIdle

CreateChatterTireCurve ==
    /\ pc = "start"
    /\ LET res == create_realistic_tire_curve(slip_angles, dy_ref, fz0, ls_exp, vertical_load)
       IN  IF res.error # "none"
           THEN /\ error' = res.error
                /\ pc' = "failed"
                /\ UNCHANGED <<base_forces, chattering_forces, chatter_progress>>
           ELSE /\ chattering_forces' \in
                       ChatterLoop(slip_angles, res.forces, chatter_start,
                                   chatter_intensity, chatter_frequency, 1)
                /\ base_forces' = BaseForcesAfterOverlay(res.forces, chattering_forces')
                /\ chatter_progress' = ProgressTrace(slip_angles, chatter_start)
                /\ pc' = "chattered"
                /\ UNCHANGED error
    /\ UNCHANGED brushVars
    /\ UNCHANGED <<slip_angles, dy_ref, fz0, ls_exp, vertical_load,
                   chatter_start, chatter_intensity, chatter_frequency,
                   input_forces, normalized_forces, lut_file>>

\* generate_chatter_lut_files(slip_angles, chatter_curves, dy_ref) for a
\* chatter_curves dict holding the curve just built
GenerateChatterLutFiles ==
    /\ pc = "chattered"
    /\ input_forces' = chattering_forces
    /\ IF Len(chattering_forces) = 0
       THEN /\ error' = "ValueError"        \* np.max of an empty array
            /\ pc' = "failed"
            /\ UNCHANGED <<normalized_forces, lut_file>>
       ELSE /\ normalized_forces' = Normalize(chattering_forces)
            /\ lut_file' = ChatterHeader \o DataLines(slip_angles, Normalize(chattering_forces))
            /\ pc' = "chatter_written"
            /\ UNCHANGED error
    /\ chattering_forces' = IF Len(chattering_forces) = 0 THEN chattering_forces
                            ELSE ForcesAfterNormalize(chattering_forces,
                                                      Normalize(chattering_forces))
    /\ UNCHANGED brushVars
    /\ UNCHANGED <<slip_angles, dy_ref, fz0, ls_exp, vertical_load,
                   chatter_start, chatter_intensity, chatter_frequency,
                   base_forces, chatter_progress>>

NextChatter == CreateChatterTireCurve \/ GenerateChatterLutFiles

SpecChatter == InitChatter /\ [][NextChatter]_vars

-----------------------------------------------------------------------------
(* The load-sensitivity script called with loads outside fz0 > 0 *)

\* <<fz0, ls_exp, vertical_load>> with fz0 <= 0
InvalidLoadCases ==
    {<<R(0, 1), 1, R(2, 1)>>, <<R(-2, 1), 1, R(2, 1)>>, <<R(-2, 1), 2, R(3, 1)>>}

InitDomain ==
    /\ pc = "start"
    /\ slip_angles \in SeriesOver(AngleGrid, MaxLen)
    /\ dy_ref \in DyRefs
    /\ \E lc \in InvalidLoadCases : fz0 = lc[1] /\ ls_exp = lc[2] /\ vertical_load = lc[3]
    /\ chatter_start = R(10, 1)
    /\ chatter_intensity = R(3, 20)
    /\ chatter_frequency = R(2, 1)
    /\ input_forces = << >>
    /\ base_forces = << >>
    /\ chattering_forces = << >>
    /\ chatter_progress = << >>
    /\ normalized_forces = << >>
    /\ lut_file = << >>
    /\ error = "none"
    /\ BrushIdle

SpecDomain == InitDomain /\ [][Next]_vars

-----------------------------------------------------------------------------
(* The builder and the LUT writer called with arbitrary arrays *)

MaxAnyLen == 2

AnyGrid == {0, 10, 30}

\* the sequences of at most n elements of S, in any order and with repetitions
RECURSIVE SeqsUpTo(_, _)
SeqsUpTo(S, n) ==
    IF n = 0 THEN {<< >>}
    ELSE SeqsUpTo(S, n - 1) \cup
         {Append(q, x) : q \in {t \in SeqsUpTo(S, n - 1) : Len(t) = n - 1}, x \in S}

AnySeries == SeqsUpTo({R(a, 10) : a \in AnyGrid}, MaxAnyLen)

AnyForces == SeqsUpTo({R(0, 1), R(1, 2), R(1, 1)}, MaxAnyLen)

InitAny ==
    /\ pc = "start"
    /\ slip_angles \in AnySeries
    /\ dy_ref = R(63, 50)
    /\ fz0 = R(2, 1)
    /\ ls_exp = 1
    /\ vertical_load = R(2, 1)
    /\ chatter_start = R(10, 1)
    /\ chatter_intensity = R(3, 20)
    /\ chatter_frequency = R(2, 1)
    /\ input_forces = << >>
    /\ base_forces = << >>
    /\ chattering_forces = << >>
    /\ chatter_progress = << >>
    /\ normalized_forces = << >>
    /\ lut_file = << >>
    /\ error = "none"
    /\ BrushIdle

\* generate_lut_file(slip_angles, forces, filename) on any force array
GenerateLutFileWith ==
    /\ pc = "start"
    /\ \E forces \in AnyForces :
           /\ input_forces' = forces
           /\ IF Len(forces) = 0
              THEN /\ error' = "ValueError"        \* np.max of an empty array
                   /\ pc' = "failed"
                   /\ UNCHANGED <<normalized_forces, lut_file>>
              ELSE /\ normalized_forces' = Normalize(forces)
                   /\ lut_file' = LutHeader \o DataLines(slip_angles, Normalize(forces))
                   /\ pc' = "written"
                   /\ UNCHANGED error
    /\ UNCHANGED brushVars
    /\ UNCHANGED <<slip_angles, dy_ref, fz0, ls_exp, vertical_load,
                   chatter_start, chatter_intensity, chatter_frequency,
                   base_forces, chattering_forces, chatter_progress>>

NextAny == CreateRealisticTireCurve \/ GenerateLutFile \/ GenerateLutFileWith

SpecAny == InitAny /\ [][NextAny]_vars

-----------------------------------------------------------------------------
(* The plotter script: one call of the brush model *)

MaxBrushLen == 3

BrushGrid == {0, 50, 85, 100, 150, 2400}

FrictionLimitAngles == {R(17, 2), R(5, 1)}

FalloffLevels == {R(0, 1), R(3, 5), R(1, 1)}

FalloffSpeeds == {R(2, 1), R(16, 1)}

InitBrush ==
    /\ pc = "start"
    /\ slip_angles \in SeriesOver(BrushGrid, MaxBrushLen)
    /\ dy_ref = R(63, 50)
    /\ friction_limit_angle \in FrictionLimitAngles
    /\ falloff_level \in FalloffLevels
    /\ falloff_speed \in FalloffSpeeds
    /\ ac_forces = << >>
    /\ fz0 = R(2, 1)
    /\ ls_exp = 1
    /\ vertical_load = R(2, 1)
    /\ chatter_start = R(10, 1)
    /\ chatter_intensity = R(3, 20)
    /\ chatter_frequency = R(2, 1)
    /\ input_forces = << >>
    /\ base_forces = << >>
    /\ chattering_forces = << >>
    /\ chatter_progress = << >>
    /\ normalized_forces = << >>
    /\ lut_file = << >>
    /\ error = "none"

AcTireModel ==
    /\ pc = "start"
    /\ ac_forces' = ac_tire_model(slip_angles, dy_ref, friction_limit_angle,
                                  falloff_level, falloff_speed)
    /\ pc' = "modelled"
    /\ UNCHANGED <<slip_angles, dy_ref, fz0, ls_exp, vertical_load,
                   chatter_start, chatter_intensity, chatter_frequency,
                   input_forces, base_forces, chattering_forces, chatter_progress,
                   normalized_forces, lut_file, error,
                   friction_limit_angle, falloff_level, falloff_speed>>

NextBrush == AcTireModel

SpecBrush == InitBrush /\ [][NextBrush]_vars

-----------------------------------------------------------------------------
(* Properties *)

Indices == 1..Len(slip_angles)

\* create_realistic_tire_curve has returned its force series
Returned == pc \in {"built", "written"}

\* create_chatter_tire_curve has returned its force series
Chattered == pc \in {"chattered", "chatter_written"}

peak_grip == PeakGrip(dy_ref, fz0, ls_exp, vertical_load)

InPlateau(a) == RLe(R(11, 2), a) /\ RLe(a, R(8, 1))

IsMaxSample(i) == \A j \in Indices : RLe(base_forces[j], base_forces[i])

\* m is the maximum of the series f
HasMax(f, m) == (\E k \in 1..Len(f) : f[k] = m) /\ (\A k \in 1..Len(f) : RLe(f[k], m))

DataLineCount == Cardinality({k \in 1..Len(lut_file) : lut_file[k].kind = "data"})

\* C1: for every strictly increasing series and valid parameters,
\* create_realistic_tire_curve raises nothing and returns one force per angle,
\* also when the first angle is above 2.0.
C1_BuilderAlwaysReturns ==
    pc # "start" =>
        /\ error # "UnboundLocalError"
        /\ Len(base_forces) = Len(slip_angles)

\* C2: for angles <= 2.0 the force is strictly increasing in the angle, and it
\* is exactly 0 at angle 0.
C2_LinearStrictlyIncreasing ==
    Returned =>
        /\ \A i, j \in Indices :
               (RLt(slip_angles[i], slip_angles[j]) /\ RLe(slip_angles[j], R(2, 1)))
                   => RLt(base_forces[i], base_forces[j])
        /\ \A i \in Indices : slip_angles[i] = Zero => base_forces[i] = Zero

C2_Witness ==
    /\ Returned
    /\ \E i, j \in Indices :
           /\ RLt(slip_angles[i], slip_angles[j]) /\ RLe(slip_angles[j], R(2, 1))
           /\ slip_angles[i] = Zero

\* C3: every force returned by the builders and by the chatter overlay is >= 0.
C3_ForcesNonNegative ==
    /\ \A i \in 1..Len(base_forces) : RLe(Zero, base_forces[i])
    /\ \A i \in 1..Len(chattering_forces) : RLe(Zero, chattering_forces[i])

C4_NonDecreasingToPeak ==
    \A i, j \in Indices :
        (RLt(slip_angles[i], slip_angles[j]) /\ RLe(slip_angles[j], R(11, 2)))
            => RLe(base_forces[i], base_forces[j])

C4_NoForceAbovePeakGrip == \A i \in Indices : RLe(base_forces[i], peak_grip)

C4_HasPlateauSample == \E k \in Indices : InPlateau(slip_angles[k])

\* sample i is the last one below 5.5, in the transition segment
C4_LastBelowPlateau(i) ==
    /\ RLt(R(2, 1), slip_angles[i]) /\ RLt(slip_angles[i], R(11, 2))
    /\ \A j \in Indices :
           ~(RLt(slip_angles[i], slip_angles[j]) /\ RLt(slip_angles[j], R(11, 2)))

\* C4 as stated: when the series has a sample in [5.5, 8.0], the sample with the
\* maximum force has its angle in [5.5, 8.0], the forces are non-decreasing up
\* to 5.5 and no force exceeds peak_grip.
C4_PeakInsidePlateau ==
    (Returned /\ C4_HasPlateauSample) =>
        /\ \A i \in Indices : IsMaxSample(i) => InPlateau(slip_angles[i])
        /\ C4_NonDecreasingToPeak
        /\ C4_NoForceAbovePeakGrip

\* C4 amended: when the series has a sample in [5.5, 8.0], the sample with the
\* maximum force has its angle in [5.5, 8.0] or is the last sample below 5.5, and
\* it is the 5.5 sample when the series has one; the forces are non-decreasing
\* up to 5.5 and no force exceeds peak_grip.
C4_PeakAtOrJustBelowPlateau ==
    (Returned /\ C4_HasPlateauSample) =>
        /\ \A i \in Indices :
               IsMaxSample(i) => (InPlateau(slip_angles[i]) \/ C4_LastBelowPlateau(i))
        /\ \A i, k \in Indices :
               (IsMaxSample(i) /\ slip_angles[k] = R(11, 2)) => i = k
        /\ C4_NonDecreasingToPeak
        /\ C4_NoForceAbovePeakGrip

C4_Witness ==
    /\ Returned
    /\ C4_HasPlateauSample
    /\ \E i \in Indices : IsMaxSample(i) /\ C4_LastBelowPlateau(i)

\* C5: the force at 8.0 differs from the force at 5.5 by at most 5% of the
\* force at 5.5, and every sample with 5.5 < angle <= 8.0 has the force
\* peak_grip * (1 - 0.02 * (angle - 5.5)), between 0.95 * peak_grip and peak_grip.
C5_PlateauWithinFivePercent ==
    Returned =>
        /\ \A i, j \in Indices :
               (slip_angles[i] = R(11, 2) /\ slip_angles[j] = R(8, 1)) =>
                   /\ RLe(RSub(base_forces[i], base_forces[j]), RMul(R(5, 100), base_forces[i]))
                   /\ RLe(RSub(base_forces[j], base_forces[i]), RMul(R(5, 100), base_forces[i]))
        /\ \A i \in Indices :
               (RLt(R(11, 2), slip_angles[i]) /\ RLe(slip_angles[i], R(8, 1))) =>
                   \* 1 - 0.02 * (angle - 5.5) = (555 - 10 * angle) / 500
                   /\ RMul(base_forces[i], R(500, 1)) =
                          RMul(peak_grip, RSub(R(555, 1), RMul(R(10, 1), slip_angles[i])))
                   /\ RLe(RMul(R(95, 100), peak_grip), base_forces[i])
                   /\ RLe(base_forces[i], peak_grip)

C5_Witness ==
    /\ Returned
    /\ \E i, j, k \in Indices :
           /\ slip_angles[i] = R(11, 2)
           /\ slip_angles[j] = R(8, 1)
           /\ RLt(R(11, 2), slip_angles[k]) /\ RLt(slip_angles[k], R(8, 1))

\* C6: at every index whose angle is below chatter_start the chatter curve
\* equals the base curve.
C6_UnchangedBelowStart ==
    Chattered =>
        \A i \in Indices :
            RLt(slip_angles[i], chatter_start) => chattering_forces[i] = base_forces[i]

C6_Witness ==
    /\ Chattered
    /\ \E i, j \in Indices :
           /\ RLt(slip_angles[i], chatter_start)
           /\ base_forces[i] # Zero
           /\ chattering_forces[j] # base_forces[j]

\* C7: at every index the chatter curve is at least 0.1 times the base force.
C7_FloorAtTenthOfBase ==
    Chattered =>
        \A i \in Indices : RLe(RMul(R(1, 10), base_forces[i]), chattering_forces[i])

\* C8: for every sample at or above chatter_start, with any chatter_start >= 0,
\* the chatter progress is a finite number in [0, 1].
C8_ProgressInUnitInterval ==
    Chattered =>
        \A i \in Indices :
            chatter_progress[i].applied =>
                /\ IsFinite(chatter_progress[i].progress)
                /\ RLe(Zero, chatter_progress[i].progress)
                /\ RLe(chatter_progress[i].progress, One)

\* C9: normalising a series with a strictly positive maximum gives a series of
\* the same length whose maximum is exactly 1.0, each element being the input
\* element divided by the input maximum.
C9_NormalizedPeakIsOne ==
    pc = "written" =>
        \A m \in {input_forces[k] : k \in 1..Len(input_forces)} :
            (HasMax(input_forces, m) /\ RLt(Zero, m)) =>
                /\ Len(normalized_forces) = Len(input_forces)
                /\ HasMax(normalized_forces, One)
                /\ \A k \in 1..Len(input_forces) :
                       RMul(normalized_forces[k], m) = input_forces[k]

C9_Witness ==
    /\ pc = "written"
    /\ \E m \in {input_forces[k] : k \in 1..Len(input_forces)} :
           HasMax(input_forces, m) /\ RLt(Zero, m)
    /\ \E k \in 1..Len(normalized_forces) :
           k > 1 /\ RLt(Zero, normalized_forces[k]) /\ RLt(normalized_forces[k], One)

\* C10: normalising a series whose maximum is zero or negative fails with a
\* DegenerateCurveError; no NaN or Infinity is produced and no data line is
\* written.
C10_DegenerateCurveRejected ==
    (Len(input_forces) > 0 /\ \A k \in 1..Len(input_forces) : RLe(input_forces[k], Zero)) =>
        /\ error = "DegenerateCurveError"
        /\ \A k \in 1..Len(normalized_forces) : IsFinite(normalized_forces[k])
        /\ DataLineCount = 0

\* C11: a call with fz0 <= 0 is rejected with an error: no NaN, Infinity or
\* other value is returned and the curve builder produces no force series.
\* (The exponents the model draws are integers, so the claim's second case,
\* vertical_load <= 0 with a non-integer ls_exp, does not arise.)
C11_InvalidLoadRejected ==
    (pc # "start" /\ RLe(fz0, Zero)) =>
        /\ error # "none"
        /\ base_forces = << >>

StrictlyIncreasing(angles) ==
    \A i, j \in 1..Len(angles) : i < j => RLt(angles[i], angles[j])

\* C12: an angle series that is not strictly increasing, or an angle array and
\* a force array of different lengths, is rejected with an error before
\* anything is computed or written: in particular no data line is written.
C12_MalformedInputRejected ==
    (pc # "start" /\ (\/ ~StrictlyIncreasing(slip_angles)
                      \/ (pc = "written" /\ Len(input_forces) # Len(slip_angles)))) =>
        /\ error # "none"
        /\ DataLineCount = 0

RAbs(x) == IF RLt(x, Zero) THEN RNeg(x) ELSE x

\* text is the rendering of the finite value x with n decimals
IsRendering(text, x, n) ==
    /\ IsFinite(text)
    /\ Pow10(n) % text[2] = 0
    /\ IsFinite(x)
    /\ RLe(RMul(RAbs(RSub(text, x)), R(2 * Pow10(n), 1)), One)

HeaderLen == Len(lut_file) - DataLineCount

\* C13: the LUT text is the header comment lines, each beginning with ';',
\* followed by exactly one data line per sample, '<angle, 1 decimal>|<force,
\* 4 decimals>', in the order of the input series; no comment line follows a
\* data line and there are as many data lines as samples.
C13_LutLayout ==
    pc \in {"written", "chatter_written"} =>
        /\ DataLineCount = Len(slip_angles)
        /\ \A k \in 1..Len(lut_file) :
               IF k <= HeaderLen
               THEN lut_file[k].kind = "comment" /\ lut_file[k].first = ";"
               ELSE /\ lut_file[k].kind = "data"
                    /\ IsRendering(lut_file[k].angle, slip_angles[k - HeaderLen], 1)
                    /\ IsRendering(lut_file[k].force, normalized_forces[k - HeaderLen], 4)

brush_peak == RMul(dy_ref, Radians(friction_limit_angle))

PostPeak(i) == RLt(friction_limit_angle, slip_angles[i])

\* the parts of C14 that do not depend on how close the force comes to the floor
C14_PeakAndMonotone ==
    /\ \A i \in 1..Len(ac_forces) :
           /\ slip_angles[i] = friction_limit_angle => ac_forces[i] = brush_peak
           /\ PostPeak(i) => RLe(ac_forces[i], brush_peak)
    /\ \A i, j \in 1..Len(ac_forces) :
           (PostPeak(i) /\ i < j) => RLe(ac_forces[j], ac_forces[i])

ForceAtLinearEnd == RDiv(peak_grip, R(3, 1))

ForceAtPlateauEnd == RMul(R(19, 20), peak_grip)

ForceAtModerateEnd == RMul(R(3, 4), RMul(R(19, 20), peak_grip))

ForceBeyondTwenty == RMul(R(3, 5), RMul(R(3, 4), RMul(R(19, 20), peak_grip)))

\* C16: the five segments join without a jump: at 2.0, 5.5, 8.0 and 12.0 the
\* formula of the segment that owns the threshold and the formula of the next
\* segment give the same force, peak_grip/3, peak_grip, 0.95 * peak_grip and
\* 0.75 * 0.95 * peak_grip; a returned series has these forces at threshold
\* samples, and 0.60 * 0.75 * 0.95 * peak_grip at every angle >= 20.0.
C16_SegmentsJoin ==
    LET cs == CorneringStiffness(peak_grip)
    IN  /\ LinearForce(cs, R(2, 1)) = ForceAtLinearEnd
        /\ TransitionForce(cs, peak_grip, R(2, 1)) = ForceAtLinearEnd
        /\ TransitionForce(cs, peak_grip, R(11, 2)) = peak_grip
        /\ PlateauForce(peak_grip, R(11, 2)) = peak_grip
        /\ PlateauForce(peak_grip, R(8, 1)) = ForceAtPlateauEnd
        /\ ModerateFalloffForce(peak_grip, R(8, 1)) = ForceAtPlateauEnd
        /\ ModerateFalloffForce(peak_grip, R(12, 1)) = ForceAtModerateEnd
        /\ SteepFalloffForce(peak_grip, R(12, 1)) = ForceAtModerateEnd
        /\ Returned =>
               \A i \in Indices :
                   /\ slip_angles[i] = R(2, 1) => base_forces[i] = ForceAtLinearEnd
                   /\ slip_angles[i] = R(11, 2) => base_forces[i] = peak_grip
                   /\ slip_angles[i] = R(8, 1) => base_forces[i] = ForceAtPlateauEnd
                   /\ slip_angles[i] = R(12, 1) => base_forces[i] = ForceAtModerateEnd
                   /\ RLe(R(20, 1), slip_angles[i]) => base_forces[i] = ForceBeyondTwenty

C16_Witness ==
    /\ pc = "built"
    /\ slip_angles = <<R(2, 1), R(12, 1), R(20, 1), R(25, 1)>>
    /\ base_forces[1] = ForceAtLinearEnd
    /\ base_forces[2] = ForceAtModerateEnd
    /\ base_forces[3] = ForceBeyondTwenty
    /\ base_forces[4] = base_forces[3]
    /\ RLt(Zero, base_forces[4])

=============================================================================
